---- MODULE Spec2Model ----
(***************************************************************************)
(* A model of softioc/autosave.py: the registry of autosave files, the     *)
(* background worker that saves them, the loader, and the exit hook.       *)
(*                                                                         *)
(* Threads: the main thread (configuration, registration, load, start,     *)
(* the exit hook), the worker thread (loop), and the record framework that *)
(* changes the values behind the accessors.  One call of _save is one      *)
(* step of the worker: last_state, last_saved_time and the files of the    *)
(* directory are written by the worker alone.  The registry is filled      *)
(* before the thread is started, and the records change once it runs.      *)
(* Time is in seconds; the files are configured at time 0.                 *)
(*                                                                         *)
(* Spec is the whole life of a process with one record, and ReloadSpec     *)
(* the part of it with one file configured.  LoadSpec is the restart of a  *)
(* process with two records on the directory an earlier run left, and      *)
(* SnapSpec the passes of the worker over a file of two records.           *)
(***************************************************************************)
EXTENDS Integers, Sequences, FiniteSets, TLC

(* ---------------- program constants ---------------- *)

SAV_SUFFIX == "softsav"
SAVB_SUFFIX == "softsavB"
BU_SUFFIX == "bu"
DEFAULT_SAVE_PERIOD == 30
\* timedelta.seconds is the seconds field of a normalised timedelta, 0..86399
SecondsPerDay == 86400

(* ---------------- bounds of the model ---------------- *)

\* how many times the worker's datetime.now() may move forward
MaxAdvances == 1
\* how many times the record framework changes a value
MaxChanges == 1
\* how many I/O failures or crashes are injected
MaxFaults == 1
\* how many times load_autosave is called with a sav file to load
MaxLoads == 1

(* ---------------- inputs ---------------- *)

\* names given to configure_file, in the order they are first configured
FileNames == <<"a", "b">>
\* the records of the framework that may be registered, in any of the files
PvNames == {"x"}
\* values a record may hold; "nan" is the float NaN
Values == {"v1", "v2", "nan"}
\* the state of a record whose get() raises
Raises == "raise"
\* the arguments given to configure_file for each name
ConfigArgs(name) ==
    IF name = "a"
    THEN {[save_period |-> DEFAULT_SAVE_PERIOD, timestamped_backups |-> FALSE, enabled |-> TRUE],
          [save_period |-> DEFAULT_SAVE_PERIOD, timestamped_backups |-> FALSE, enabled |-> FALSE],
          [save_period |-> SecondsPerDay, timestamped_backups |-> FALSE, enabled |-> TRUE]}
    ELSE {[save_period |-> DEFAULT_SAVE_PERIOD, timestamped_backups |-> TRUE, enabled |-> TRUE]}
\* how far datetime.now() may move between two passes of the worker
Steps == {DEFAULT_SAVE_PERIOD, SecondsPerDay}

\* a restart with two records: the records, a key written by an earlier run for
\* a record that is no longer registered, and the values found in the directory
LoadPvNames == {"x", "y"}
GhostKey == "ghost"
LoadValues == {"v1", "v2"}

VARIABLES
    directory,      \* __Autosave.directory: "None", "dir" (a directory), "nodir"
    enabled,        \* __Autosave.enabled
    files,          \* __Autosave.files: the dict, as a sequence in insertion order
    stop_event,     \* __Autosave._stop_event
    started,        \* start_autosave_thread has run: the worker thread exists
    pc,             \* the worker: "idle", "start", "top", "for", "save_all", "done"
    now,            \* loop's local now
    i,              \* loop's position in files.values()
    j,              \* _save_all's position in files.values()
    val,            \* the framework's records: the value get() returns, or Raises
    disk,           \* the directory: path -> [complete, data]
    loadpos,        \* the main thread inside _load: at file loadpos, 0 when outside
    crashed,        \* the process was killed
    advances, changes, faults, loads,   \* how much of each bound is used
    written,        \* history: per file, the last state renamed onto its sav file
    touched,        \* history: files with a record changed since their last save
    attempts,       \* history: the files _save_all has called _save for
    flushed,        \* history: a whole _save_all pass has returned
    diag            \* the keys the step just taken printed "Exception setting" for

vars == <<directory, enabled, files, stop_event, started, pc, now, i, j, val,
          disk, loadpos, crashed, advances, changes, faults, loads, written,
          touched, attempts, flushed, diag>>

config == <<directory, enabled>>
worker == <<pc, now, i, j>>
hist == <<written, touched, attempts, flushed>>

(* ---------------- helpers ---------------- *)

Names == {FileNames[n] : n \in 1..Len(FileNames)}
EmptyState == <<>>

\* the position of a filename in the dict, 0 when it is not a key
IndexOf(fs, name) ==
    IF \E n \in 1..Len(fs) : fs[n].filename = name
    THEN CHOOSE n \in 1..Len(fs) : fs[n].filename = name
    ELSE 0

(* ---------------- the directory ---------------- *)

NoStamp == 0 - 1
Path(name, suffix, stamp) == [name |-> name, suffix |-> suffix, stamp |-> stamp]

\* cls.directory / f"{file.filename}.{SAV_SUFFIX}"
_get_sav_file(file) == Path(file.filename, SAV_SUFFIX, NoStamp)

\* a slip: the state is written straight onto the sav file
TmpFileInPlace(file) == Path(file.filename, SAV_SUFFIX, NoStamp)

\* cls.directory / f"{file.filename}.{SAVB_SUFFIX}"
_get_tmp_file(file) == Path(file.filename, SAVB_SUFFIX, NoStamp)

\* a slip: the stamped name is used whatever timestamped_backups says
BackupPathStamped(file) == Path(file.filename, SAV_SUFFIX, file.last_saved_time)

\* _load's bu_file: the sav name with the stamp of last_saved_time, or <name>.bu
BackupPath(file) ==
    IF file.timestamped_backups
    THEN Path(file.filename, SAV_SUFFIX, file.last_saved_time)
    ELSE Path(file.filename, BU_SUFFIX, NoStamp)

Exists(d, p) == p \in DOMAIN d
Put(d, p, c) == [q \in (DOMAIN d) \cup {p} |-> IF q = p THEN c ELSE d[q]]
Remove(d, p) == [q \in (DOMAIN d) \ {p} |-> d[q]]
\* os.rename: dst is replaced in one step; src = dst changes nothing
Rename(d, src, dst) == IF src = dst THEN d ELSE Put(Remove(d, src), dst, d[src])

\* a file written to its end, and one whose writer stopped half way
Whole(data) == [complete |-> TRUE, data |-> data]
Truncated == [complete |-> FALSE, data |-> <<>>]

(* ---------------- yaml ---------------- *)

\* the scalar yaml.dump writes for a value, and the value yaml.full_load reads
YamlScalar(v) == CASE v = "v1" -> "1" [] v = "v2" -> "2" [] v = "nan" -> ".nan"
YamlValue(t) == CASE t = "1" -> "v1" [] t = "2" -> "v2" [] t = ".nan" -> "nan"

\* yaml.dump(state, tmp, indent=4): one "key: scalar" line per key
yaml_dump(state) == [k \in DOMAIN state |-> YamlScalar(state[k])]
\* a slip: the file is read with a loader that resolves no tag, so that every
\* scalar comes back as its text
yaml_base_load(data) == data

\* yaml.full_load(f)
yaml_full_load(data) == [k \in DOMAIN data |-> YamlValue(data[k])]

(* ---------------- snapshots ---------------- *)

\* numpy.array_equal on scalars: a == b, and NaN is equal to nothing
array_equal(a, b) == a = b /\ a # "nan"

\* a slip: the try is around the for loop, so a get() that raises ends the
\* reading (taken here as met first)
GetStateUntilRaise(file) ==
    IF \E q \in file.pvs : val[q] = Raises THEN <<>>
    ELSE [k \in file.pvs |-> val[k]]

\* _get_state: the records whose get() raises are left out
_get_state(file) == [k \in {q \in file.pvs : val[q] # Raises} |-> val[k]]

\* a slip: an empty snapshot always counts as changed
StateChangedOrEmpty(state, file) ==
    \/ DOMAIN state = {}
    \/ DOMAIN state # DOMAIN file.last_state
    \/ \E key \in DOMAIN state : ~array_equal(state[key], file.last_state[key])

\* _state_changed
_state_changed(state, file) ==
    \/ DOMAIN state # DOMAIN file.last_state
    \/ \E key \in DOMAIN state : ~array_equal(state[key], file.last_state[key])

\* timedelta.seconds of now - last_saved_time
TimedeltaSeconds(delta) == delta % SecondsPerDay

\* a slip: force does not lift the test of the period
IsDueUnforced(file, t, force) ==
    ~(TimedeltaSeconds(t - file.last_saved_time) < file.save_period)

\* the test of line 183, negated: _save goes on to read the state
IsDue(file, t, force) ==
    ~(TimedeltaSeconds(t - file.last_saved_time) < file.save_period /\ ~force)

(* ---------------- the initial state ---------------- *)

\* the class attributes of __Autosave, no thread, an empty directory
Init ==
    /\ directory = "None"
    /\ enabled = FALSE
    /\ files = <<>>
    /\ stop_event = FALSE
    /\ started = FALSE
    /\ pc = "idle"
    /\ now = 0
    /\ i = 0
    /\ j = 0
    /\ val = [k \in PvNames |-> "v1"]
    /\ disk = <<>>
    /\ loadpos = 0
    /\ crashed = FALSE
    /\ advances = 0
    /\ changes = 0
    /\ faults = 0
    /\ loads = 0
    /\ written = [n \in Names |-> [saved |-> FALSE, state |-> EmptyState]]
    /\ touched = {}
    /\ attempts = {}
    /\ flushed = FALSE
    /\ diag = {}

(* ---------------- the main thread: configuration ---------------- *)

\* the main thread is not inside _load and has not reached the exit hook
MainFree == ~crashed /\ loadpos = 0 /\ ~stop_event

\* configure_directory(directory, enabled)
configure_directory(d, en) ==
    /\ MainFree /\ ~started
    /\ directory' = d
    /\ enabled' = en
    /\ UNCHANGED <<files, stop_event, started, worker, val, disk, loadpos,
                   crashed, advances, changes, faults, loads, hist>>
    /\ diag' = {}

\* __AutosaveFile.__init__: last_saved_time is datetime.now(), then two empty dicts
AutosaveFile(filename, save_period, timestamped_backups, en) ==
    [filename |-> filename, save_period |-> save_period,
     timestamped_backups |-> timestamped_backups, enabled |-> en,
     last_saved_time |-> now, pvs |-> {}, last_state |-> EmptyState]

\* files[filename] = __AutosaveFile(...): a new key goes last, a known key keeps
\* its place and gets the new object
DictSet(fs, name, file) ==
    IF IndexOf(fs, name) = 0 THEN Append(fs, file)
    ELSE [fs EXCEPT ![IndexOf(fs, name)] = file]

\* configure_file(filename, save_period, timestamped_backups, enabled)
configure_file(filename, save_period, timestamped_backups, en) ==
    /\ MainFree /\ ~started
    /\ files' = DictSet(files, filename,
                        AutosaveFile(filename, save_period, timestamped_backups, en))
    /\ UNCHANGED <<config, stop_event, started, worker, val, disk, loadpos,
                   crashed, advances, changes, faults, loads, hist>>
    /\ diag' = {}

\* add_pv_to_autosave(pv, name, save_val=True, save_fields=[], filename): an
\* unknown filename raises and nothing is registered
add_pv_to_autosave(name, filename) ==
    /\ MainFree /\ ~started
    /\ IndexOf(files, filename) # 0
    /\ files' = [files EXCEPT ![IndexOf(files, filename)].pvs = @ \cup {name}]
    /\ UNCHANGED <<config, stop_event, started, worker, val, disk, loadpos,
                   crashed, advances, changes, faults, loads, hist>>
    /\ diag' = {}

\* start_autosave_thread: __Autosave() raises when enabled without a directory,
\* and then no thread is made
start_autosave_thread ==
    /\ MainFree /\ ~started
    /\ ~enabled \/ directory = "dir"
    /\ started' = TRUE
    /\ pc' = "start"
    /\ UNCHANGED <<config, files, stop_event, now, i, j, val, disk, loadpos,
                   crashed, advances, changes, faults, loads, hist>>
    /\ diag' = {}

\* _shutdown_autosave_thread, the exit hook: stop(), then join() on the worker
stop ==
    /\ ~crashed /\ started /\ loadpos = 0
    /\ stop_event' = TRUE
    /\ UNCHANGED <<config, files, started, worker, val, disk, loadpos, crashed,
                   advances, changes, faults, loads, hist>>
    /\ diag' = {}

\* the exit hook has returned: join() came back
Joined == stop_event /\ pc = "done"

(* ---------------- the record framework ---------------- *)

\* the files that save record k
FilesOf(k) == {files[n].filename : n \in {m \in 1..Len(files) : k \in files[m].pvs}}

\* a record gets another value, or its get() starts or stops raising
ChangePv(k, v) ==
    /\ ~crashed /\ started
    /\ changes < MaxChanges
    /\ v # val[k]
    /\ val' = [val EXCEPT ![k] = v]
    /\ changes' = changes + 1
    /\ touched' = touched \cup FilesOf(k)
    /\ UNCHANGED <<config, files, stop_event, started, worker, disk, loadpos,
                   crashed, advances, faults, loads, written, attempts, flushed>>
    /\ diag' = {}

(* ---------------- the worker: _save ---------------- *)

\* where lines 192-194 can be cut short: open() raises, the dump raises part way,
\* rename() raises, the process is killed during the dump or before the rename
IoErrors == {"open", "dump", "rename"}
Kills == {"kill_dump", "kill_rename"}

\* lines 192-194 on the directory
WriteFiles(d, tmp_path, sav_path, state, fault) ==
    CASE fault = "open" -> d
      [] fault \in {"dump", "kill_dump"} -> Put(d, tmp_path, Truncated)
      [] fault \in {"rename", "kill_rename"} -> Put(d, tmp_path, Whole(yaml_dump(state)))
      [] OTHER -> Rename(Put(d, tmp_path, Whole(yaml_dump(state))), tmp_path, sav_path)

\* lines 195-196
Saved(file, state, t) == [file EXCEPT !.last_state = state, !.last_saved_time = t]

\* a slip: lines 195-196 moved above the open(), so they run before any failure
AfterSaveEarly(file, state, t, fault) == Saved(file, state, t)

\* the file object when _save is left: lines 195-196 are reached only when
\* nothing raised before them
AfterSave(file, state, t, fault) ==
    IF fault = "none" THEN Saved(file, state, t) ELSE file

\* _save(file, now, force) on the file at place n of the dict
_save(n, force) ==
    LET file == files[n]
        state == _get_state(file)
    IN  /\ attempts' = IF force THEN attempts \cup {file.filename} ELSE attempts
        /\ IF ~IsDue(file, now, force)
           THEN UNCHANGED <<files, disk, faults, crashed, written, touched>>
           ELSE IF ~_state_changed(state, file)
           THEN UNCHANGED <<files, disk, faults, crashed, written, touched>>
           ELSE \E fault \in {"none"} \cup IoErrors \cup Kills :
                /\ fault # "none" => faults < MaxFaults
                /\ disk' = WriteFiles(disk, _get_tmp_file(file), _get_sav_file(file),
                                      state, fault)
                /\ faults' = IF fault = "none" THEN faults ELSE faults + 1
                /\ crashed' = (fault \in Kills)
                /\ files' = [files EXCEPT ![n] = AfterSave(file, state, now, fault)]
                /\ IF fault = "none"
                   THEN /\ written' = [written EXCEPT ![file.filename] =
                                           [saved |-> TRUE, state |-> state]]
                        /\ touched' = touched \ {file.filename}
                   ELSE UNCHANGED <<written, touched>>

\* the call of _save raised: the exception leaves the for loop
Raised == faults' # faults

(* ---------------- the worker: loop ---------------- *)

\* a slip: loop also returns at once when stop is already set
LoopReturnsOnStop == ~enabled \/ Len(files) = 0 \/ stop_event

\* line 204
LoopReturns == ~enabled \/ Len(files) = 0

\* loop is entered: lines 204-205
LoopEnter ==
    /\ ~crashed /\ pc = "start"
    /\ pc' = IF LoopReturns THEN "done" ELSE "top"
    /\ UNCHANGED <<config, files, stop_event, started, now, i, j, val, disk,
                   loadpos, crashed, advances, changes, faults, loads, hist>>
    /\ diag' = {}

\* line 207: now = datetime.now(), and the for loop starts
LoopTop ==
    /\ ~crashed /\ pc = "top"
    /\ \/ UNCHANGED <<now, advances>>
       \/ \E d \in Steps :
            /\ advances < MaxAdvances
            /\ now' = now + d
            /\ advances' = advances + 1
    /\ pc' = "for"
    /\ i' = 1
    /\ UNCHANGED <<config, files, stop_event, started, j, val, disk, loadpos,
                   crashed, changes, faults, loads, hist>>
    /\ diag' = {}

\* the for loop takes its next file, or ends and the while loop goes round
NextFile ==
    IF i < Len(files) THEN pc' = "for" /\ i' = i + 1
    ELSE pc' = "top" /\ i' = 0

\* lines 213-214: no stop requested, the file of this round is saved if due
LoopSave ==
    /\ ~crashed /\ pc = "for" /\ ~stop_event
    /\ _save(i, FALSE)
    /\ IF Raised THEN pc' = "top" /\ i' = 0 ELSE NextFile
    /\ UNCHANGED <<config, stop_event, started, now, j, val, loadpos, advances,
                   changes, loads, flushed>>
    /\ diag' = {}

\* lines 210-212: stop requested, _save_all is called
LoopSaveAll ==
    /\ ~crashed /\ pc = "for" /\ stop_event
    /\ pc' = "save_all"
    /\ j' = 1
    /\ UNCHANGED <<config, files, stop_event, started, now, i, val, disk, loadpos,
                   crashed, advances, changes, faults, loads, hist>>
    /\ diag' = {}

\* _save_all: one call of _save(file, now, force=True); after the last one
\* _save_all returns into the for loop
_save_all ==
    /\ ~crashed /\ pc = "save_all"
    /\ _save(j, TRUE)
    /\ IF Raised THEN pc' = "top" /\ i' = 0 /\ j' = 0 /\ UNCHANGED flushed
       ELSE IF j < Len(files) THEN j' = j + 1 /\ UNCHANGED <<pc, i, flushed>>
       ELSE j' = 0 /\ flushed' = TRUE /\ NextFile
    /\ UNCHANGED <<config, stop_event, started, now, val, loadpos, advances,
                   changes, loads>>
    /\ diag' = {}

(* ---------------- the main thread: _load ---------------- *)

\* the next file of [f for f in cls.files.values() if f.enabled] after place k
NextEnabled(k) ==
    IF \E m \in (k + 1)..Len(files) : files[m].enabled
    THEN CHOOSE m \in (k + 1)..Len(files) :
            files[m].enabled /\ \A q \in (k + 1)..(m - 1) : ~files[q].enabled
    ELSE 0

\* an enabled file has a sav file
SomethingToLoad ==
    \E n \in 1..Len(files) : files[n].enabled /\ Exists(disk, _get_sav_file(files[n]))

\* load_autosave() is called: _load starts on the first enabled file
load_autosave ==
    /\ MainFree
    /\ directory # "None"
    /\ loads < MaxLoads
    /\ loads' = IF SomethingToLoad THEN loads + 1 ELSE loads
    /\ loadpos' = NextEnabled(0)
    /\ UNCHANGED <<config, files, stop_event, started, worker, val, disk, crashed,
                   advances, changes, faults, hist>>
    /\ diag' = {}

\* the keys _set_pvs_from_state prints "Exception setting" for: those with no
\* accessor (file.pvs[pv_field] raises KeyError) and those whose set() raises
BadKeys(file, state, bad) == {k \in DOMAIN state : k \notin file.pvs} \cup bad

\* a slip: the accessor is looked up and its set() is never called
SetPvsNoSet(file, state, bad) == val

\* a slip: the try is around the for loop, so the first bad key ends the loop
\* (taken here as met first)
SetPvsUntilBad(file, state, bad) ==
    [k \in DOMAIN val |->
        IF k \in DOMAIN state /\ k \in file.pvs /\ BadKeys(file, state, bad) = {}
        THEN state[k] ELSE val[k]]

\* _set_pvs_from_state: set() on every key that has an accessor and whose set()
\* does not raise; the values of the records after it
_set_pvs_from_state(file, state, bad) ==
    [k \in DOMAIN val |->
        IF k \in DOMAIN state /\ k \in file.pvs /\ k \notin bad
        THEN state[k] ELSE val[k]]

\* one round of the for loop of _load, lines 133-149
_load ==
    /\ ~crashed /\ loadpos > 0
    /\ LET file == files[loadpos]
           sav_path == _get_sav_file(file)
       IN  IF ~Exists(disk, sav_path)
           THEN /\ loadpos' = NextEnabled(loadpos)
                /\ diag' = {}
                /\ UNCHANGED <<val, disk, faults, touched>>
           ELSE \/ \* copy2 raises, before or while it writes: the exception
                   \* leaves _load and load_autosave
                   /\ faults < MaxFaults
                   /\ faults' = faults + 1
                   /\ disk' \in {disk, Put(disk, BackupPath(file), Truncated)}
                   /\ loadpos' = 0
                   /\ diag' = {}
                   /\ UNCHANGED <<val, touched>>
                \/ \* the copy is made; the file is read and its values set
                   /\ disk' = Put(disk, BackupPath(file), disk[sav_path])
                   /\ loadpos' = NextEnabled(loadpos)
                   /\ IF ~disk[sav_path].complete
                      THEN \* yaml.full_load raises: caught at line 148
                           /\ diag' = {}
                           /\ UNCHANGED <<val, faults, touched>>
                      ELSE LET state == yaml_full_load(disk[sav_path].data)
                           IN  \E bad \in SUBSET (DOMAIN state \cap file.pvs) :
                                 /\ bad # {} => faults < MaxFaults
                                 /\ faults' = IF bad = {} THEN faults ELSE faults + 1
                                 /\ val' = _set_pvs_from_state(file, state, bad)
                                 /\ diag' = BadKeys(file, state, bad)
                                 /\ touched' = touched \cup
                                      UNION {FilesOf(k) : k \in {q \in DOMAIN val : val'[q] # val[q]}}
    /\ UNCHANGED <<config, files, stop_event, started, worker, crashed, advances,
                   changes, loads, written, attempts, flushed>>

(* ---------------- the specification ---------------- *)

MainThread ==
    \/ \E d \in {"dir", "nodir"}, en \in BOOLEAN : configure_directory(d, en)
    \/ \E n \in 1..Len(FileNames) :
         /\ n <= Len(files) + 1
         /\ \E c \in ConfigArgs(FileNames[n]) :
              configure_file(FileNames[n], c.save_period, c.timestamped_backups,
                             c.enabled)
    \/ \E k \in PvNames, n \in Names : add_pv_to_autosave(k, n)
    \/ load_autosave
    \/ _load
    \/ start_autosave_thread
    \/ stop

Worker ==
    \/ LoopEnter
    \/ LoopTop
    \/ LoopSave
    \/ LoopSaveAll
    \/ _save_all

Framework == \E k \in PvNames, v \in Values \cup {Raises} : ChangePv(k, v)

Next == MainThread \/ Worker \/ Framework

Spec == Init /\ [][Next]_vars

\* the worker thread is scheduled as long as it can take a step
FairSpec == Spec /\ WF_vars(Worker)

(* ---------------- a restart: load_autosave on the directory of an earlier run ---------------- *)

\* the snapshots over some of the keys
Snapshots(keys, values) == UNION {[d -> values] : d \in SUBSET keys}

\* what an earlier run may have left as a sav file: nothing, a file that does not
\* parse, or the dump of a snapshot
LeftOver(keys) ==
    {[present |-> FALSE, content |-> Truncated]}
        \cup {[present |-> TRUE, content |-> c] :
                 c \in {Truncated} \cup {Whole(yaml_dump(m)) : m \in Snapshots(keys, LoadValues)}}

\* the directory holding these sav files
Directory(file_a, left_a, file_b, left_b) ==
    LET d == IF left_a.present THEN Put(<<>>, _get_sav_file(file_a), left_a.content)
             ELSE <<>>
    IN  IF left_b.present THEN Put(d, _get_sav_file(file_b), left_b.content) ELSE d

\* configure_directory, configure_file("a"), configure_file("b") and
\* add_pv_to_autosave have run in a new process: file a saves some of the two
\* records, file b saves y; the directory is as an earlier run left it
LoadInit ==
    /\ directory = "dir"
    /\ enabled = TRUE
    /\ stop_event = FALSE
    /\ started = FALSE
    /\ pc = "idle"
    /\ now = 0
    /\ i = 0
    /\ j = 0
    /\ \E pvs_a \in SUBSET LoadPvNames :
         files = << [AutosaveFile("a", DEFAULT_SAVE_PERIOD, FALSE, TRUE)
                        EXCEPT !.pvs = pvs_a],
                    [AutosaveFile("b", DEFAULT_SAVE_PERIOD, TRUE, TRUE)
                        EXCEPT !.pvs = {"y"}] >>
    /\ val \in [LoadPvNames -> LoadValues]
    /\ \E left_a \in LeftOver(LoadPvNames \cup {GhostKey}), left_b \in LeftOver({"y"}) :
         disk = Directory(files[1], left_a, files[2], left_b)
    /\ loadpos = 0
    /\ crashed = FALSE
    /\ advances = 0
    /\ changes = 0
    /\ faults = 0
    /\ loads = 0
    /\ written = [n \in Names |-> [saved |-> FALSE, state |-> EmptyState]]
    /\ touched = {}
    /\ attempts = {}
    /\ flushed = FALSE
    /\ diag = {}

\* the main thread calls load_autosave before it starts the worker
LoadNext == load_autosave \/ _load

LoadSpec == LoadInit /\ [][LoadNext]_vars

(* ---------------- one file, saved and loaded again ---------------- *)

\* configure_directory, configure_file("a") and add_pv_to_autosave have run:
\* one enabled file that saves the record x, in an empty directory
ReloadInit ==
    /\ directory = "dir"
    /\ enabled = TRUE
    /\ stop_event = FALSE
    /\ started = FALSE
    /\ pc = "idle"
    /\ now = 0
    /\ i = 0
    /\ j = 0
    /\ files = << [AutosaveFile("a", DEFAULT_SAVE_PERIOD, FALSE, TRUE)
                      EXCEPT !.pvs = PvNames] >>
    /\ val = [k \in PvNames |-> "v1"]
    /\ disk = <<>>
    /\ loadpos = 0
    /\ crashed = FALSE
    /\ advances = 0
    /\ changes = 0
    /\ faults = 0
    /\ loads = 0
    /\ written = [n \in Names |-> [saved |-> FALSE, state |-> EmptyState]]
    /\ touched = {}
    /\ attempts = {}
    /\ flushed = FALSE
    /\ diag = {}

\* the worker is started and runs, the records change, and the main thread
\* calls load_autosave at any time before the exit hook
ReloadNext ==
    start_autosave_thread \/ load_autosave \/ _load \/ stop \/ Worker \/ Framework

ReloadSpec == ReloadInit /\ [][ReloadNext]_vars

(* ---------------- the worker on two records ---------------- *)

\* the worker is between two passes over one file a that saves some of the two
\* records.  The file was configured at 0 and the time is one period later;
\* the file has not been saved yet, or it was saved in the pass before with the
\* snapshot last (some of its records were read then); the records hold any
\* value since, or raise
SnapInit ==
    /\ directory = "dir"
    /\ enabled = TRUE
    /\ stop_event = FALSE
    /\ started = TRUE
    /\ pc = "top"
    /\ now = DEFAULT_SAVE_PERIOD
    /\ i = 0
    /\ j = 0
    /\ \E pvs_a \in SUBSET LoadPvNames :
         \E last \in Snapshots(pvs_a, Values) :
            LET unsaved == [AutosaveFile("a", DEFAULT_SAVE_PERIOD, FALSE, TRUE)
                               EXCEPT !.pvs = pvs_a, !.last_saved_time = 0]
            IN  IF last = EmptyState
                THEN /\ files = <<unsaved>>
                     /\ disk = <<>>
                     /\ written = [n \in Names |-> [saved |-> FALSE, state |-> EmptyState]]
                ELSE /\ files = <<Saved(unsaved, last, now)>>
                     /\ disk = Put(<<>>, _get_sav_file(unsaved), Whole(yaml_dump(last)))
                     /\ written = [n \in Names |->
                                      IF n = "a" THEN [saved |-> TRUE, state |-> last]
                                      ELSE [saved |-> FALSE, state |-> EmptyState]]
    /\ val \in [LoadPvNames -> Values \cup {Raises}]
    /\ loadpos = 0
    /\ crashed = FALSE
    /\ advances = 0
    /\ changes = 0
    /\ faults = 0
    /\ loads = 0
    /\ touched = {}
    /\ attempts = {}
    /\ flushed = FALSE
    /\ diag = {}

\* the passes of the worker, and the exit hook
SnapNext == LoopTop \/ LoopSave \/ LoopSaveAll \/ _save_all \/ stop

SnapSpec == SnapInit /\ [][SnapNext]_vars

(* ---------------- steps of the worker, as the claims see them ---------------- *)

FileIndex == 1..Len(files)

\* this step is the call _save(files[n], now) of line 214
PeriodicStep(n) == pc = "for" /\ ~stop_event /\ i = n /\ <<pc, i>>' # <<pc, i>>

\* this step is the call _save(files[n], now, force=True) of line 200
ForcedStep(n) == pc = "save_all" /\ j = n /\ <<pc, j>>' # <<pc, j>>

\* this step is the round of _load's for loop on files[n]
LoadStep(n) == loadpos = n /\ loadpos' # loadpos

\* this round of _load on files[n] ended with copy2 raising: the one failure of
\* a round that prints nothing for a key
CopyRaised(n) == LoadStep(n) /\ faults' # faults /\ diag' = {}

\* the main thread is in the round of _load on files[n]: it copies the sav file,
\* reads it and sets the records
Loading(n) == loadpos = n

\* the worker is in _save on files[n]: it reads the records and writes the sav file
Saving(n) == (pc = "for" /\ i = n) \/ (pc = "save_all" /\ j = n)

\* the worker is running: the engine is enabled and a file is configured
Running == started /\ enabled /\ Len(files) > 0

(* ---------------- C1 ---------------- *)

\* C1: once stop() has been signalled on a running worker, the loop eventually
\* returns (the worker reaches "done"), so that join() comes back; a killed
\* process is left aside.
C1_StopTerminates == (Running /\ stop_event /\ ~crashed) ~> (Joined \/ crashed)

(* ---------------- C2 ---------------- *)

\* C2, as claimed: the worker has terminated after a stop signal only when a whole
\* final pass over the files has been made.
C2_StoppedOnlyAfterFlush == (pc = "done" /\ stop_event) => flushed

\* C2, amended: loop returns only at its entry, when the engine is disabled or no
\* file is configured, and then without saving; with the engine enabled and a
\* file configured the worker is never found terminated short of a whole final
\* pass.
C2_StoppedOnlyAfterFlushOrDisabled ==
    pc = "done" => (flushed \/ ~enabled \/ Len(files) = 0)

\* loop has returned after stop was set, with an enabled file never flushed
C2_Witness ==
    /\ pc = "done" /\ stop_event /\ ~flushed /\ ~enabled
    /\ \E n \in FileIndex : files[n].enabled /\ files[n].pvs # {}

(* ---------------- C3 ---------------- *)

C4_OneAttemptPerFile ==
    [][\A n \in FileIndex :
         (ForcedStep(n) /\ files[n].enabled) => files[n].filename \notin attempts]_vars

(* ---------------- C5 ---------------- *)

\* C5: the periodic pass writes nothing for a file whose enabled flag is false.
C5_DisabledFileSkipped ==
    [][\A n \in FileIndex :
         (PeriodicStep(n) /\ ~files[n].enabled) =>
            /\ disk' = disk
            /\ files'[n] = files[n]]_vars

(* ---------------- C6 ---------------- *)

\* C6: in the periodic pass an enabled file is evaluated exactly when
\* now - last_saved_time >= its period: then, if its snapshot differs and nothing
\* fails, it is saved; otherwise nothing of it changes.
C6_DueIffElapsed ==
    [][\A n \in FileIndex :
         (PeriodicStep(n) /\ files[n].enabled) =>
            LET file == files[n]
                state == _get_state(file)
            IN  IF now - file.last_saved_time >= file.save_period
                THEN (_state_changed(state, file) /\ faults' = faults) =>
                        /\ files'[n].last_state = state
                        /\ files'[n].last_saved_time = now
                ELSE files'[n] = file /\ disk' = disk]_vars

(* ---------------- C7 ---------------- *)

\* C7: once an enabled file has been saved, a save attempt made while none of its
\* records has changed since the last save writes nothing to the directory.
C7_NoChangeNoWrite ==
    [][\A n \in FileIndex :
         (/\ PeriodicStep(n) \/ ForcedStep(n)
          /\ files[n].enabled
          /\ written[files[n].filename].saved
          /\ files[n].filename \notin touched) => disk' = disk]_vars

(* ---------------- C8 ---------------- *)

\* C8: last_state of every file is the last state that was renamed onto its sav
\* file (the empty state when none was), and a step in which something fails
\* leaves last_state and last_saved_time of every file as they were, so that the
\* file still differs at the next pass.
C8_LastStateIsWritten ==
    /\ [](\A n \in FileIndex : files[n].last_state = written[files[n].filename].state)
    /\ [][\A n \in FileIndex :
            ((PeriodicStep(n) \/ ForcedStep(n)) /\ faults' # faults) =>
               /\ files'[n].last_state = files[n].last_state
               /\ files'[n].last_saved_time = files[n].last_saved_time
               /\ val' = val => _state_changed(_get_state(files'[n]), files'[n])]_vars

\* a save has failed after the dump: the whole new state is in the tmp file, the
\* sav file and last_state hold the older state, and the file still differs
C8_Witness ==
    /\ faults > 0 /\ ~crashed
    /\ \E n \in FileIndex :
         LET file == files[n]
         IN  /\ written[file.filename].saved
             /\ Exists(disk, _get_tmp_file(file))
             /\ disk[_get_tmp_file(file)] = Whole(yaml_dump(_get_state(file)))
             /\ file.last_state = written[file.filename].state
             /\ _state_changed(_get_state(file), file)

(* ---------------- C9 ---------------- *)

\* C9: a sav file that exists is whole, and holds the last state renamed onto it:
\* the state before the save under way or the state it saves, never a part.
C9_CanonicalWhole ==
    \A n \in FileIndex :
        LET p == _get_sav_file(files[n])
        IN  Exists(disk, p) =>
               /\ disk[p].complete
               /\ disk[p].data = yaml_dump(written[files[n].filename].state)

\* the process was killed while it wrote the tmp file of a file that had a sav
\* file: the tmp file is cut short, the sav file is there
C9_Witness ==
    /\ crashed
    /\ \E n \in FileIndex :
         /\ Exists(disk, _get_tmp_file(files[n]))
         /\ ~disk[_get_tmp_file(files[n])].complete
         /\ Exists(disk, _get_sav_file(files[n]))

(* ---------------- C10 ---------------- *)

\* every file of the directory that belongs to a name, its sav file apart
BackupsOf(d, file) ==
    {q \in DOMAIN d : q.name = file.filename /\ q # _get_sav_file(file)}

BackupFiles(d, file) ==
    {q \in DOMAIN d : q.name = file.filename
                        /\ (q.suffix = BU_SUFFIX \/ q.stamp # NoStamp)}

C11_PerKeyIsolation ==
    [][\A n \in FileIndex :
         LET file == files[n]
             p == _get_sav_file(file)
         IN  (/\ LoadStep(n) /\ ~CopyRaised(n)
              /\ Exists(disk, p) /\ disk[p].complete) =>
                LET state == yaml_full_load(disk[p].data)
                IN  /\ loadpos' = NextEnabled(n)
                    /\ {k \in DOMAIN state : k \notin file.pvs} \subseteq diag'
                    /\ diag' \subseteq DOMAIN state
                    /\ \A k \in DOMAIN state \ diag' : val'[k] = state[k]
                    /\ \A k \in DOMAIN val :
                          (k \in diag' \/ k \notin DOMAIN state) => val'[k] = val[k]]_vars

\* a load has met a mapping with a key that has no accessor, a key whose set()
\* raised and a key it restored to a value the record did not hold
C11_Witness ==
    /\ loadpos # 1 /\ faults > 0
    /\ diag = {GhostKey, "x"}
    /\ files[1].pvs = LoadPvNames
    /\ Exists(disk, _get_sav_file(files[1]))
    /\ disk[_get_sav_file(files[1])] = Whole(yaml_dump([k \in DOMAIN val \cup {GhostKey} |-> "v2"]))
    /\ val = [k \in DOMAIN val |-> IF k = "x" THEN "v1" ELSE "v2"]

(* ---------------- C12 ---------------- *)

\* C12: a load of a file whose sav file holds a snapshot S saved by the worker,
\* in which no copy and no set() fails, sets every record of S to the value S
\* holds for it (the keys of S all have an accessor in the file) and leaves the
\* other records alone.
C12_RoundTrip ==
    [][\A n \in FileIndex :
         LET file == files[n]
             S == written[file.filename].state
         IN  (/\ LoadStep(n) /\ faults' = faults
              /\ Exists(disk, _get_sav_file(file))) =>
                /\ written[file.filename].saved
                /\ DOMAIN S \subseteq file.pvs
                /\ \A k \in DOMAIN S : val'[k] = S[k]
                /\ \A k \in DOMAIN val \ DOMAIN S : val'[k] = val[k]]_vars

\* a record was saved with its first value, has changed since, and a load has
\* set it back to the saved value
C12_Witness ==
    /\ changes = 1 /\ loads > 0 /\ loadpos = 0
    /\ \E n \in FileIndex :
         LET S == written[files[n].filename].state
         IN  /\ files[n].enabled /\ written[files[n].filename].saved
             /\ "x" \in DOMAIN S /\ S["x"] = "v1" /\ val["x"] = "v1"

(* ---------------- C13 ---------------- *)

\* C13: whatever fails in the round of _load on one file (the backup copy, the
\* parse, a key), nothing is raised out of _load: the loop goes on to the next
\* enabled file, and returns only after the last one.
C13_LoadGoesOn ==
    [][\A n \in FileIndex : LoadStep(n) => loadpos' = NextEnabled(n)]_vars

(* ---------------- C14 ---------------- *)

\* C14: at configuration time (before the worker is started) a file that is in
\* the registry stays the file it is, whatever is configured after it: it keeps
\* its name, its accessors (registration only adds to them), its last_state and
\* its last_saved_time.
C14_DuplicateRejected ==
    [][~started =>
         \A n \in FileIndex :
            /\ files'[n].filename = files[n].filename
            /\ files[n].pvs \subseteq files'[n].pvs
            /\ files'[n].last_state = files[n].last_state
            /\ files'[n].last_saved_time = files[n].last_saved_time]_vars

(* ---------------- C15 ---------------- *)

\* C15: the main thread is never in the round of _load on a file that has a sav
\* file to apply while the worker is in _save on the same file.
C15_NoSaveDuringLoad ==
    \A n \in FileIndex :
        ~(/\ Loading(n) /\ Saving(n)
          /\ files[n].pvs # {} /\ Exists(disk, _get_sav_file(files[n])))

(* ---------------- C16 ---------------- *)

\* the snapshot _get_state would take of files[n] differs from its last_state:
\* what the next save that gets past the test of the period sees
Dirty(n) == _state_changed(_get_state(files[n]), files[n])

\* this round of _load has read a mapping and set every key of it that has an
\* accessor, at least one
RestoredAll(n) ==
    LET p == _get_sav_file(files[n])
    IN  /\ LoadStep(n) /\ faults' = faults
        /\ Exists(disk, p) /\ disk[p].complete
        /\ DOMAIN yaml_full_load(disk[p].data) \cap files[n].pvs # {}

\* C16, as claimed: a round of _load, whatever its outcome, leaves last_state and
\* last_saved_time of every file as they were, and so after a round that
\* restored at least one key the file's snapshot differs from its last_state:
\* the next due save sees a change and writes.
C16_LoadMakesDirty ==
    [][\A n \in FileIndex :
         LoadStep(n) =>
            /\ \A m \in FileIndex :
                  /\ files'[m].last_state = files[m].last_state
                  /\ files'[m].last_saved_time = files[m].last_saved_time
            /\ RestoredAll(n) => Dirty(n)']_vars

\* C16, amended: a round of _load, whatever its outcome, leaves last_state and
\* last_saved_time of every file as they were.  Whether the next due save writes
\* is then the Differ's answer on the restored values against that last_state:
\* after a load of a file that the worker of this process saved with all its
\* records, the snapshot is last_state again, and the save sees no change and
\* writes nothing, unless a restored value is NaN.
C16_LoadKeepsLastState ==
    [][\A n \in FileIndex :
         LoadStep(n) =>
            /\ \A m \in FileIndex :
                  /\ files'[m].last_state = files[m].last_state
                  /\ files'[m].last_saved_time = files[m].last_saved_time
            /\ (RestoredAll(n) /\ DOMAIN files[n].last_state = files[n].pvs) =>
                  (Dirty(n)' <=> \E k \in files[n].pvs : files[n].last_state[k] = "nan")]_vars

\* a record saved with its first value has changed since and a load has set it
\* back: the file is as last saved, and a save of it would write nothing
C16_Witness ==
    /\ changes = 1 /\ loads > 0 /\ loadpos = 0
    /\ \E n \in FileIndex :
         /\ files[n].enabled
         /\ files[n].last_state = [k \in {"x"} |-> "v1"]
         /\ files[n].filename \in touched
         /\ ~Dirty(n)

(* ---------------- C17 ---------------- *)

\* this step is a call of _save on files[n] that got past the test of the period
SaveStep(n) ==
    \/ PeriodicStep(n) /\ IsDue(files[n], now, FALSE)
    \/ ForcedStep(n)

\* C17: the snapshot a save writes (it is the new last_state, and the content of
\* the sav file) has only keys of the file's accessors: a record whose get()
\* raises is absent, a record whose get() returns is there with the value
\* returned.  A get() that raises does not end the save: when some record of
\* the file returns a value that last_state does not hold for it and nothing
\* fails in the writing, the file is saved.
C17_SnapshotKeys ==
    [][\A n \in FileIndex :
         LET file == files[n]
             snap == files'[n].last_state
         IN  /\ (SaveStep(n) /\ files'[n] # file) =>
                   /\ DOMAIN snap \subseteq file.pvs
                   /\ \A k \in file.pvs :
                         IF val[k] = Raises THEN k \notin DOMAIN snap
                         ELSE k \in DOMAIN snap /\ snap[k] = val[k]
                   /\ disk'[_get_sav_file(file)] = Whole(yaml_dump(snap))
             /\ (/\ SaveStep(n) /\ faults' = faults
                 /\ \E k \in file.pvs :
                       /\ val[k] # Raises
                       /\ k \in DOMAIN file.last_state => val[k] # file.last_state[k]) =>
                   /\ files'[n].last_saved_time = now
                   /\ \E k \in DOMAIN snap : snap[k] = val[k]]_vars

\* a file with two records has been saved while the get() of x raised: the sav
\* file and last_state hold y alone
C17_Witness ==
    /\ val["x"] = Raises /\ val["y"] = "v2"
    /\ files[1].pvs = LoadPvNames
    /\ files[1].last_state = [k \in {"y"} |-> "v2"]
    /\ files[1].last_saved_time > DEFAULT_SAVE_PERIOD
    /\ disk[_get_sav_file(files[1])] = Whole(yaml_dump(files[1].last_state))

(* ---------------- C18 ---------------- *)

\* C18: for the snapshot and the last_state of every file, _state_changed is true
\* exactly when their key sets differ or a key of both has two different
\* values; a snapshot that lacks a key of last_state because its get() raised
\* counts as changed.
C18_DifferIff ==
    \A n \in FileIndex :
        LET file == files[n]
            state == _get_state(file)
        IN  file.enabled =>
            /\ _state_changed(state, file) <=>
                  \/ DOMAIN state # DOMAIN file.last_state
                  \/ \E k \in DOMAIN state \cap DOMAIN file.last_state :
                        state[k] # file.last_state[k]
            /\ (\E k \in DOMAIN file.last_state : k \in file.pvs /\ val[k] = Raises) =>
                  _state_changed(state, file)

(* ---------------- C19 ---------------- *)

\* C19: a file with no accessor has no sav file and no tmp file, and its
\* last_state is empty; no call of _save on it, in a pass or in the flush, due or
\* not, changes the directory or the file object.
C19_NoAccessorNoWrite ==
    /\ [](\A n \in FileIndex :
            files[n].pvs = {} =>
               /\ ~Exists(disk, _get_sav_file(files[n]))
               /\ ~Exists(disk, _get_tmp_file(files[n]))
               /\ files[n].last_state = EmptyState)
    /\ [][\A n \in FileIndex :
            ((PeriodicStep(n) \/ ForcedStep(n)) /\ files[n].pvs = {}) =>
               /\ disk' = disk
               /\ files' = files
               /\ faults' = faults]_vars

\* a file with no accessor has been through a pass in which it was due and
\* through a whole flush, and the directory is empty
C19_Witness ==
    /\ files[1].pvs = {}
    /\ now - files[1].last_saved_time >= files[1].save_period
    /\ stop_event /\ flushed /\ "a" \in attempts
    /\ disk = <<>>

(* ---------------- C20 ---------------- *)

\* C20: when the save of a file fails with an I/O error in a pass (the process
\* goes on), the pass goes on to the next file: an enabled file after it that
\* is due and whose snapshot differs is still saved in that pass.
C20_FailureIsolated ==
    [][\A n \in FileIndex :
         (/\ PeriodicStep(n) /\ faults' # faults /\ ~crashed'
          /\ n < Len(files)
          /\ files[n + 1].enabled
          /\ IsDue(files[n + 1], now, FALSE)
          /\ Dirty(n + 1)) =>
            pc' = "for" /\ i' = n + 1]_vars

====
